---- MODULE Spec2Model ----
(***************************************************************************)
(* A model of the message bus of src/src/bus.rs: the registry              *)
(* HashMap<TypeId, Box<dyn AnyChannel>> behind an Arc<RwLock<..>>, the     *)
(* double-checked lazy creation of one tokio broadcast channel per message *)
(* type, and the broadcast channel's ring buffer as seen through the calls *)
(* the repository makes on it (channel, send, subscribe, recv, drop).      *)
(***************************************************************************)
EXTENDS Integers, Sequences, FiniteSets, TLC

\* ------------------------------------------------------------------ bounds
\* number of concurrently scheduled tasks calling into the bus
NTasks == 3
\* total number of publish calls in a behaviour (each value has a fresh id)
MaxPub == 2
\* total number of subscribe calls in a behaviour
MaxSub == 2
\* largest default_capacity a bus is constructed with
MaxCap == 2
\* largest number of simultaneously live clones of the bus handle
MaxClones == 2
\* how often one handle may be polled again after it has reported Closed
MaxClosed == 2
\* publish calls of the lag scenario SeqSpec
MaxPubSeq == 6
\* largest default_capacity of the lag scenario SeqSpec
MaxCapSeq == 4
\* publish calls of the two-channel capacity scenario CapSpec
MaxPubCap == 3

Tasks == 1..NTasks
\* the message types of src/src/message.rs that travel over the bus
Types == {"Bar", "FillEvent"}
\* the value of a task's locals outside a call
NoType == "none"

VARIABLES
    cap,        \* MessageBus.default_capacity
    clones,     \* live clones of the MessageBus (strong count of the Arc)
    registry,   \* MessageBus.channels: TypeId -> channel id, 0 = no entry
    chans,      \* the broadcast channels created so far (shared state of each)
    rx,         \* the broadcast::Receiver handles created so far
    queue,      \* RwLock: FIFO queue of waiting lock requests
    readers,    \* RwLock: tasks holding a read guard
    writer,     \* RwLock: task holding the write guard, 0 = none
    pc,         \* where each task is inside publish / subscribe
    arg,        \* the message type M of each task's current call
    msg,        \* the value each publishing task passes
    cur,        \* the receiver a subscribing task is about to return
    hist,       \* history: one record per publish call
    got,        \* history: what each receiver's recv calls returned
    inserts,    \* history: number of HashMap::insert calls per type
    called,     \* history: which of publish / subscribe was called per type
    known       \* history: what held when each task's subscribe call started

vars == <<cap, clones, registry, chans, rx, queue, readers, writer, pc, arg,
          msg, cur, hist, got, inserts, called, known>>

\* ------------------------------------------------ tokio broadcast channel
\* usize::next_power_of_two, which broadcast::channel applies to its capacity
RECURSIVE NextPow2From(_, _)
NextPow2From(p, n) == IF p >= n THEN p ELSE NextPow2From(2 * p, n)

next_power_of_two(n) == NextPow2From(1, n)

\* number of slots of a channel's ring buffer
BufLen(c) == Cardinality(DOMAIN c.buffer)

\* a channel of one slot whatever capacity the bus was given
channel_one(ty, capacity) ==
    [ty      |-> ty,
     buffer  |-> [i \in 0..0 |-> [pos |-> i - 1, val |-> 0]],
     tail    |-> 0,
     rx_cnt  |-> 1,
     closed  |-> FALSE]

\* broadcast::channel::<M>(capacity): the shared state of a new channel with
\* its first receiver counted; slot i starts at position i - len, so that
\* every slot reads as "not yet written" for a cursor at 0
channel(ty, capacity) ==
    LET len == next_power_of_two(capacity)
    IN [ty      |-> ty,
        buffer  |-> [i \in 0..(len - 1) |-> [pos |-> i - len, val |-> 0]],
        tail    |-> 0,
        rx_cnt  |-> 1,
        closed  |-> FALSE]

\* Sender::send: Err when no receiver is counted (the value is not stored),
\* else the value is written to slot tail % len, overwriting what is there
send(c, v) ==
    IF c.rx_cnt = 0
    THEN [ok |-> FALSE, n |-> 0, chan |-> c]
    ELSE [ok   |-> TRUE,
          n    |-> c.rx_cnt,
          chan |-> [c EXCEPT !.buffer[c.tail % BufLen(c)] =
                                   [pos |-> c.tail, val |-> v],
                             !.tail = c.tail + 1]]

\* a new receiver whose cursor starts at the oldest value still retained
new_receiver_replay(c) ==
    [chan |-> [c EXCEPT !.rx_cnt = c.rx_cnt + 1],
     next |-> IF c.tail > BufLen(c) THEN c.tail - BufLen(c) ELSE 0]

\* Sender::subscribe: a new receiver is counted and its cursor starts at tail
new_receiver(c) ==
    [chan |-> [c EXCEPT !.rx_cnt = c.rx_cnt + 1], next |-> c.tail]

\* recv handing out the value at the cursor without advancing the cursor
recv_stuck(c, next) ==
    LET len  == BufLen(c)
        slot == c.buffer[next % len]
    IN IF slot.pos = next
       THEN [kind |-> "Ok", val |-> slot.val, n |-> 0, next |-> next]
       ELSE IF slot.pos + len = next
            THEN [kind |-> IF c.closed THEN "Closed" ELSE "Empty",
                  val |-> 0, n |-> 0, next |-> next]
            ELSE [kind |-> "Lagged", val |-> 0, n |-> c.tail - len - next,
                  next |-> c.tail - len]

\* recv resuming one slot too late after a lag
recv_skip(c, next) ==
    LET len  == BufLen(c)
        slot == c.buffer[next % len]
    IN IF slot.pos = next
       THEN [kind |-> "Ok", val |-> slot.val, n |-> 0, next |-> next + 1]
       ELSE IF slot.pos + len = next
            THEN [kind |-> IF c.closed THEN "Closed" ELSE "Empty",
                  val |-> 0, n |-> 0, next |-> next]
            ELSE [kind |-> "Lagged", val |-> 0,
                  n |-> c.tail - len + 1 - next, next |-> c.tail - len + 1]

\* recv reporting Closed as soon as the sender is gone, whatever is buffered
recv_closed_first(c, next) ==
    LET len  == BufLen(c)
        slot == c.buffer[next % len]
    IN IF c.closed
       THEN [kind |-> "Closed", val |-> 0, n |-> 0, next |-> next]
       ELSE IF slot.pos = next
            THEN [kind |-> "Ok", val |-> slot.val, n |-> 0, next |-> next + 1]
            ELSE IF slot.pos + len = next
                 THEN [kind |-> "Empty", val |-> 0, n |-> 0, next |-> next]
                 ELSE [kind |-> "Lagged", val |-> 0,
                       n |-> c.tail - len - next, next |-> c.tail - len]

\* Receiver::recv on a cursor `next`: the value at the cursor, Lagged(missed)
\* when the slot was overwritten, Closed when drained and the sender is gone,
\* Empty when drained and the sender is alive (recv stays suspended)
recv(c, next) ==
    LET len  == BufLen(c)
        slot == c.buffer[next % len]
    IN IF slot.pos = next
       THEN [kind |-> "Ok", val |-> slot.val, n |-> 0, next |-> next + 1]
       ELSE IF slot.pos + len = next
            THEN [kind |-> IF c.closed THEN "Closed" ELSE "Empty",
                  val |-> 0, n |-> 0, next |-> next]
            ELSE LET nxt    == c.tail - len
                     missed == nxt - next
                 IN IF missed = 0
                    THEN [kind |-> "Ok", val |-> slot.val, n |-> 0,
                          next |-> next + 1]
                    ELSE [kind |-> "Lagged", val |-> 0, n |-> missed,
                          next |-> nxt]

\* a receiver drop that also closes the channel
drop_receiver_close(c) ==
    [c EXCEPT !.rx_cnt = c.rx_cnt - 1, !.closed = TRUE]

\* drop of a Receiver: it is no longer counted
drop_receiver(c) == [c EXCEPT !.rx_cnt = c.rx_cnt - 1]

\* drop of the channel's only Sender: the channel is closed
close_channel(c) == [c EXCEPT !.closed = TRUE]

\* ------------------------------------------------------------ AnyChannel
\* send_any reporting only whether the send succeeded, not the count
send_any_flag(c, m, v) ==
    IF m # c.ty
    THEN [ok |-> FALSE, n |-> 0, chan |-> c]
    ELSE LET r == send(c, v)
         IN [ok |-> TRUE, n |-> IF r.ok THEN 1 ELSE 0, chan |-> r.chan]

\* send_any passing the SendError of a send without receivers on
send_any_strict(c, m, v) ==
    IF m # c.ty
    THEN [ok |-> FALSE, n |-> 0, chan |-> c]
    ELSE LET r == send(c, v)
         IN [ok |-> r.ok, n |-> r.n, chan |-> r.chan]

\* AnyChannel::send_any of a Sender<M> of type c.ty, given a value of type m:
\* the downcast fails on another type; a send without receivers counts as 0
send_any(c, m, v) ==
    IF m # c.ty
    THEN [ok |-> FALSE, n |-> 0, chan |-> c]
    ELSE LET r == send(c, v)
         IN [ok |-> TRUE, n |-> IF r.ok THEN r.n ELSE 0, chan |-> r.chan]

\* AnyChannel::subscribe_any followed by downcast::<Receiver<M>>: the
\* downcast succeeds exactly when the channel carries M
subscribe_any(c, m) ==
    LET r == new_receiver(c)
    IN [ok |-> (m = c.ty), chan |-> r.chan, next |-> r.next]

\* ------------------------------------------------------------- MessageBus
\* MessageBus::new: an empty registry
new == [m \in Types |-> 0]

\* an insert under the key of another type
insert_other(reg, m, id) ==
    [reg EXCEPT ![CHOOSE o \in Types : o # m] = id]

\* HashMap::insert(type_id, Box::new(sender))
insert(reg, m, id) == [reg EXCEPT ![m] = id]

\* the channels after HashMap::insert has dropped the value it replaced
DropReplaced(old) ==
    IF old = 0 THEN chans ELSE [chans EXCEPT ![old] = close_channel(@)]

\* what a subscribe call of type m finds when it starts: whether the registry
\* holds a channel for m, and the publish calls that have returned
AtCall(m) ==
    [hit    |-> registry[m] # 0,
     before |-> {v \in 1..Len(hist) : hist[v].sent}]

\* no subscribe call in progress
NoCall ==
    [hit |-> FALSE, before |-> {}]

\* a new Receiver handle as the bus hands it out, with the record k of the
\* call that creates it
Handle(m, id, next, st, path, k) ==
    [ty |-> m, ch |-> id, next |-> next, st |-> st, path |-> path, mark |-> 0,
     hit |-> k.hit, before |-> k.before]

InitWith(caps) ==
    /\ cap \in caps
    /\ clones = 1
    /\ registry = new
    /\ chans = << >>
    /\ rx = << >>
    /\ queue = << >>
    /\ readers = {}
    /\ writer = 0
    /\ pc = [t \in Tasks |-> "idle"]
    /\ arg = [t \in Tasks |-> NoType]
    /\ msg = [t \in Tasks |-> 0]
    /\ cur = [t \in Tasks |-> 0]
    /\ hist = << >>
    /\ got = << >>
    /\ inserts = [m \in Types |-> 0]
    /\ called = [m \in Types |-> {}]
    /\ known = [t \in Tasks |-> NoCall]

Init == InitWith(1..MaxCap)

\* subscribe calls that have not created their receiver yet
InFlightSubs ==
    Cardinality({t \in Tasks :
                   pc[t] \in {"sub_acq_r", "sub_r", "sub_acq_w", "sub_w"}})

\* publish, bus.rs:76-78: the call starts and requests the read lock
CallPublish(t, m, v) ==
    /\ pc[t] = "idle"
    /\ clones > 0
    /\ v = Len(hist) + 1
    /\ pc' = [pc EXCEPT ![t] = "pub_acq"]
    /\ arg' = [arg EXCEPT ![t] = m]
    /\ msg' = [msg EXCEPT ![t] = v]
    /\ queue' = Append(queue, t)
    /\ hist' = Append(hist, [ty |-> m, sent |-> FALSE, ch |-> 0, pos |-> 0,
                             ok |-> TRUE, n |-> 0, liveAt |-> {},
                             pendAt |-> {}])
    /\ called' = [called EXCEPT ![m] = @ \cup {"publish"}]
    /\ UNCHANGED <<cap, clones, registry, chans, rx, readers, writer, cur,
                   got, inserts, known>>

\* subscribe, bus.rs:93-98: the call starts and requests the read lock; it is
\* the s-th subscribe call made on the bus
CallSubscribe(t, m, s) ==
    /\ pc[t] = "idle"
    /\ clones > 0
    /\ s = Len(rx) + InFlightSubs + 1
    /\ pc' = [pc EXCEPT ![t] = "sub_acq_r"]
    /\ arg' = [arg EXCEPT ![t] = m]
    /\ queue' = Append(queue, t)
    /\ called' = [called EXCEPT ![m] = @ \cup {"subscribe"}]
    /\ known' = [known EXCEPT ![t] = AtCall(m)]
    /\ UNCHANGED <<cap, clones, registry, chans, rx, readers, writer, msg,
                   cur, hist, got, inserts>>

\* RwLock::read().await completes: requests are served in FIFO order, and a
\* read guard is granted when no write guard is held
AcquireRead(t) ==
    /\ pc[t] \in {"pub_acq", "sub_acq_r"}
    /\ queue # << >> /\ Head(queue) = t
    /\ writer = 0
    /\ queue' = Tail(queue)
    /\ readers' = readers \cup {t}
    /\ pc' = [pc EXCEPT ![t] = IF pc[t] = "pub_acq" THEN "pub_r" ELSE "sub_r"]
    /\ UNCHANGED <<cap, clones, registry, chans, rx, writer, arg, msg, cur,
                   hist, got, inserts, called, known>>

\* RwLock::write().await completes: no guard of either kind is held
AcquireWrite(t) ==
    /\ pc[t] = "sub_acq_w"
    /\ queue # << >> /\ Head(queue) = t
    /\ writer = 0 /\ readers = {}
    /\ queue' = Tail(queue)
    /\ writer' = t
    /\ pc' = [pc EXCEPT ![t] = "sub_w"]
    /\ UNCHANGED <<cap, clones, registry, chans, rx, readers, arg, msg, cur,
                   hist, got, inserts, called, known>>

\* the handles of type m in state st
HandlesIn(m, st) == {h \in 1..Len(rx) : rx[h].ty = m /\ rx[h].st = st}

\* a publish that removes the registry entry of a channel on which send
\* found no receiver
PubMatchEvict(t) ==
    LET m  == arg[t]
        v  == msg[t]
        id == registry[m]
        r  == IF id = 0
              THEN [ok |-> TRUE, n |-> 0]
              ELSE send_any(chans[id], m, v)
    IN /\ chans' = IF id = 0 THEN chans ELSE [chans EXCEPT ![id] = r.chan]
       /\ registry' = IF id # 0 /\ r.n = 0 THEN [registry EXCEPT ![m] = 0]
                      ELSE registry
       /\ hist' = [hist EXCEPT ![v] =
                     [ty |-> m, sent |-> TRUE, ch |-> id,
                      pos |-> IF id = 0 THEN 0 ELSE chans[id].tail,
                      ok |-> r.ok, n |-> r.n,
                      liveAt |-> HandlesIn(m, "live"),
                      pendAt |-> HandlesIn(m, "pending")]]
       /\ readers' = readers \ {t}
       /\ pc' = [pc EXCEPT ![t] = "idle"]
       /\ arg' = [arg EXCEPT ![t] = NoType]
       /\ msg' = [msg EXCEPT ![t] = 0]
       /\ UNCHANGED <<cap, clones, rx, queue, writer, cur, got, inserts,
                      called, known>>

\* a publish that creates the channel of its type when the lookup misses
PubMatchCreate(t) ==
    LET m  == arg[t]
        v  == msg[t]
        id == registry[m]
    IN /\ chans' = IF id = 0
                   THEN Append(chans, [channel(m, cap) EXCEPT !.rx_cnt = 0])
                   ELSE [chans EXCEPT ![id] = send_any(chans[id], m, v).chan]
       /\ registry' = IF id = 0 THEN [registry EXCEPT ![m] = Len(chans) + 1]
                      ELSE registry
       /\ hist' = [hist EXCEPT ![v] =
                     [ty |-> m, sent |-> TRUE, ch |-> id,
                      pos |-> IF id = 0 THEN 0 ELSE chans[id].tail,
                      ok |-> TRUE,
                      n |-> IF id = 0 THEN 0
                            ELSE send_any(chans[id], m, v).n,
                      liveAt |-> HandlesIn(m, "live"),
                      pendAt |-> HandlesIn(m, "pending")]]
       /\ readers' = readers \ {t}
       /\ pc' = [pc EXCEPT ![t] = "idle"]
       /\ arg' = [arg EXCEPT ![t] = NoType]
       /\ msg' = [msg EXCEPT ![t] = 0]
       /\ UNCHANGED <<cap, clones, rx, queue, writer, cur, got, inserts,
                      called, known>>

\* publish, bus.rs:80-84, under the read guard: the registry lookup, send_any
\* on a hit and Ok(0) on a miss; the guard is released on return
PubMatch(t) ==
    LET m  == arg[t]
        v  == msg[t]
        id == registry[m]
        r  == IF id = 0
              THEN [ok |-> TRUE, n |-> 0]
              ELSE send_any(chans[id], m, v)
    IN /\ chans' = IF id = 0 THEN chans ELSE [chans EXCEPT ![id] = r.chan]
       /\ hist' = [hist EXCEPT ![v] =
                     [ty |-> m, sent |-> TRUE, ch |-> id,
                      pos |-> IF id = 0 THEN 0 ELSE chans[id].tail,
                      ok |-> r.ok, n |-> r.n,
                      liveAt |-> HandlesIn(m, "live"),
                      pendAt |-> HandlesIn(m, "pending")]]
       /\ readers' = readers \ {t}
       /\ pc' = [pc EXCEPT ![t] = "idle"]
       /\ arg' = [arg EXCEPT ![t] = NoType]
       /\ msg' = [msg EXCEPT ![t] = 0]
       /\ UNCHANGED <<cap, clones, registry, rx, queue, writer, cur, got,
                      inserts, called, known>>

\* a publish that waits until every receiver has consumed the slot it is
\* about to overwrite
PubSendBlocking(t) ==
    /\ pc[t] = "pub_r"
    /\ \A h \in 1..Len(rx) :
         (rx[h].ch = registry[arg[t]] /\ rx[h].st # "dropped") =>
             chans[rx[h].ch].tail - rx[h].next < BufLen(chans[rx[h].ch])
    /\ PubMatch(t)

\* publish runs from the granted read guard to its return without
\* suspending
PubSend(t) ==
    /\ pc[t] = "pub_r"
    /\ PubMatch(t)

\* subscribe, bus.rs:99-105, fast path: the channel is found under the read
\* guard and subscribe_any creates the receiver
SubFast(t) ==
    LET m  == arg[t]
        id == registry[m]
    IN /\ pc[t] = "sub_r"
       /\ id # 0
       /\ LET r == subscribe_any(chans[id], m)
          IN IF r.ok
             THEN /\ chans' = [chans EXCEPT ![id] = r.chan]
                  /\ rx' = Append(rx, Handle(m, id, r.next, "pending", "fast",
                                             known[t]))
                  /\ got' = Append(got, << >>)
                  /\ cur' = [cur EXCEPT ![t] = Len(rx) + 1]
                  /\ pc' = [pc EXCEPT ![t] = "sub_ret"]
                  /\ UNCHANGED readers
             ELSE \* expect() panics: the receiver and the guard are dropped
                  /\ pc' = [pc EXCEPT ![t] = "panic"]
                  /\ readers' = readers \ {t}
                  /\ UNCHANGED <<chans, rx, got, cur>>
       /\ UNCHANGED <<cap, clones, registry, queue, writer, arg, msg, hist,
                      inserts, called, known>>

\* a subscribe that goes for the write lock whatever its lookup found
SubMissAlways(t) ==
    /\ pc[t] = "sub_r"
    /\ readers' = readers \ {t}
    /\ queue' = Append(queue, t)
    /\ pc' = [pc EXCEPT ![t] = "sub_acq_w"]
    /\ UNCHANGED <<cap, clones, registry, chans, rx, writer, arg, msg, cur,
                   hist, got, inserts, called, known>>

\* a subscribe that keeps its read guard while it waits for the write lock
SubMissKeep(t) ==
    /\ pc[t] = "sub_r"
    /\ registry[arg[t]] = 0
    /\ queue' = Append(queue, t)
    /\ pc' = [pc EXCEPT ![t] = "sub_acq_w"]
    /\ UNCHANGED <<cap, clones, registry, chans, rx, readers, writer, arg,
                   msg, cur, hist, got, inserts, called, known>>

\* subscribe, bus.rs:106-110: the lookup missed; the read guard is dropped
\* and the write lock is requested
SubMiss(t) ==
    /\ pc[t] = "sub_r"
    /\ registry[arg[t]] = 0
    /\ readers' = readers \ {t}
    /\ queue' = Append(queue, t)
    /\ pc' = [pc EXCEPT ![t] = "sub_acq_w"]
    /\ UNCHANGED <<cap, clones, registry, chans, rx, writer, arg, msg, cur,
                   hist, got, inserts, called, known>>

\* a slow path that inserts without looking again
NoDoubleCheck(reg, m) == 0

\* subscribe, bus.rs:113, the second lookup under the write guard
DoubleCheck(reg, m) == reg[m]

\* subscribe, bus.rs:113-124, slow path under the write guard: subscribe to
\* the channel another task created meanwhile, or create and insert one
SubSlow(t) ==
    LET m  == arg[t]
        id == DoubleCheck(registry, m)
    IN /\ pc[t] = "sub_w"
       /\ IF id # 0
          THEN LET r == subscribe_any(chans[id], m)
               IN IF r.ok
                  THEN /\ chans' = [chans EXCEPT ![id] = r.chan]
                       /\ rx' = Append(rx, Handle(m, id, r.next, "pending",
                                                  "recheck", known[t]))
                       /\ got' = Append(got, << >>)
                       /\ cur' = [cur EXCEPT ![t] = Len(rx) + 1]
                       /\ pc' = [pc EXCEPT ![t] = "sub_ret"]
                       /\ UNCHANGED <<registry, inserts, writer>>
                  ELSE \* expect() panics: receiver and guard are dropped
                       /\ pc' = [pc EXCEPT ![t] = "panic"]
                       /\ writer' = 0
                       /\ UNCHANGED <<chans, rx, got, cur, registry, inserts>>
          ELSE LET new_id == Len(chans) + 1
               IN /\ chans' = Append(DropReplaced(registry[m]),
                                     channel(m, cap))
                  /\ registry' = insert(registry, m, new_id)
                  /\ inserts' = [inserts EXCEPT ![m] = @ + 1]
                  /\ rx' = Append(rx, Handle(m, new_id, 0, "pending",
                                             "create", known[t]))
                  /\ got' = Append(got, << >>)
                  /\ cur' = [cur EXCEPT ![t] = Len(rx) + 1]
                  /\ pc' = [pc EXCEPT ![t] = "sub_ret"]
                  /\ UNCHANGED writer
       /\ UNCHANGED <<cap, clones, queue, readers, arg, msg, hist, called,
                      known>>

\* subscribe returns: the guard it holds is dropped and the caller owns the
\* receiver
SubReturn(t) ==
    /\ pc[t] = "sub_ret"
    /\ rx' = [rx EXCEPT ![cur[t]].st = "live"]
    /\ readers' = readers \ {t}
    /\ writer' = IF writer = t THEN 0 ELSE writer
    /\ pc' = [pc EXCEPT ![t] = "idle"]
    /\ arg' = [arg EXCEPT ![t] = NoType]
    /\ cur' = [cur EXCEPT ![t] = 0]
    /\ known' = [known EXCEPT ![t] = NoCall]
    /\ UNCHANGED <<cap, clones, registry, chans, queue, msg, hist, got,
                   inserts, called>>

\* how often receiver h has reported Closed
ClosedSeen(h) ==
    Cardinality({i \in 1..Len(got[h]) : got[h][i].kind = "Closed"})

\* a receive on a cursor shared by the handles of the channel: it moves
\* every one of them
RecvShared(h) ==
    LET c == chans[rx[h].ch]
        r == recv(c, rx[h].next)
    IN /\ rx[h].st = "live"
       /\ r.kind # "Empty"
       /\ r.kind = "Closed" => ClosedSeen(h) < MaxClosed
       /\ rx' = [g \in 1..Len(rx) |->
                   IF rx[g].ch = rx[h].ch
                   THEN [rx[g] EXCEPT !.next = r.next] ELSE rx[g]]
       /\ got' = [got EXCEPT ![h] =
                    Append(@, [kind |-> r.kind, val |-> r.val, n |-> r.n,
                               at |-> rx[h].next,
                               behind |-> c.tail - rx[h].next])]
       /\ UNCHANGED <<cap, clones, registry, chans, queue, readers, writer,
                      pc, arg, msg, cur, hist, inserts, called, known>>

\* Receiver::recv().await on a handle its owner holds (the receive loops of
\* strategy.rs and execution.rs): a value, Lagged(n) or Closed; on an empty
\* open channel the call stays suspended
Recv(h) ==
    LET c == chans[rx[h].ch]
        r == recv(c, rx[h].next)
    IN /\ rx[h].st = "live"
       /\ r.kind # "Empty"
       /\ r.kind = "Closed" => ClosedSeen(h) < MaxClosed
       /\ rx' = [rx EXCEPT ![h].next = r.next]
       /\ got' = [got EXCEPT ![h] =
                    Append(@, [kind |-> r.kind, val |-> r.val, n |-> r.n,
                               at |-> rx[h].next,
                               behind |-> c.tail - rx[h].next])]
       /\ UNCHANGED <<cap, clones, registry, chans, queue, readers, writer,
                      pc, arg, msg, cur, hist, inserts, called, known>>

\* the owner drops its Receiver (its receive loop breaks or its task is
\* aborted)
DropHandle(h) ==
    /\ rx[h].st = "live"
    /\ rx' = [rx EXCEPT ![h].st = "dropped"]
    /\ chans' = [chans EXCEPT ![rx[h].ch] = drop_receiver(@)]
    /\ UNCHANGED <<cap, clones, registry, queue, readers, writer, pc, arg,
                   msg, cur, hist, got, inserts, called, known>>

\* MessageBus::clone: one more holder of the same Arc
CloneBus ==
    /\ clones > 0
    /\ clones < MaxClones
    /\ clones' = clones + 1
    /\ UNCHANGED <<cap, registry, chans, rx, queue, readers, writer, pc, arg,
                   msg, cur, hist, got, inserts, called, known>>

\* a drop that closes the registered channels whenever any clone goes, as
\* if every clone owned the senders
DropBusEach ==
    /\ clones > 0
    /\ clones > 1 \/ \A t \in Tasks : pc[t] \in {"idle", "panic"}
    /\ clones' = clones - 1
    /\ chans' = [id \in 1..Len(chans) |->
                   IF \E m \in Types : registry[m] = id
                   THEN close_channel(chans[id]) ELSE chans[id]]
    /\ registry' = IF clones = 1 THEN [m \in Types |-> 0] ELSE registry
    /\ rx' = IF clones = 1
             THEN [h \in 1..Len(rx) |-> [rx[h] EXCEPT !.mark = Len(got[h])]]
             ELSE rx
    /\ UNCHANGED <<cap, queue, readers, writer, pc, arg, msg, cur, hist, got,
                   inserts, called, known>>

\* a MessageBus clone is dropped; a call in flight borrows a clone, so the
\* last one goes only when no call is running. With the last clone the
\* HashMap and every Sender in it are dropped: their channels are closed
DropBus ==
    /\ clones > 0
    /\ clones > 1 \/ \A t \in Tasks : pc[t] \in {"idle", "panic"}
    /\ clones' = clones - 1
    /\ IF clones = 1
       THEN /\ chans' = [id \in 1..Len(chans) |->
                           IF \E m \in Types : registry[m] = id
                           THEN close_channel(chans[id]) ELSE chans[id]]
            /\ registry' = [m \in Types |-> 0]
            /\ rx' = [h \in 1..Len(rx) |->
                        [rx[h] EXCEPT !.mark = Len(got[h])]]
       ELSE UNCHANGED <<chans, registry, rx>>
    /\ UNCHANGED <<cap, queue, readers, writer, pc, arg, msg, cur, hist, got,
                   inserts, called, known>>

\* the steps of the tasks in T calling publish and subscribe for the types
\* in M with at most P publish and S subscribe calls, of the handle owners
\* and of the holders of the bus
NextOf(T, M, P, S) ==
    \/ \E t \in T, m \in M, v \in 1..P : CallPublish(t, m, v)
    \/ \E t \in T, m \in M, s \in 1..S : CallSubscribe(t, m, s)
    \/ \E t \in T : AcquireRead(t)
    \/ \E t \in T : AcquireWrite(t)
    \/ \E t \in T : PubSend(t)
    \/ \E t \in T : SubFast(t)
    \/ \E t \in T : SubMiss(t)
    \/ \E t \in T : SubSlow(t)
    \/ \E t \in T : SubReturn(t)
    \/ \E h \in 1..Len(rx) : Recv(h)
    \/ \E h \in 1..Len(rx) : DropHandle(h)
    \/ CloneBus
    \/ DropBus

Next == NextOf(Tasks, Types, MaxPub, MaxSub)

Spec == Init /\ [][Next]_vars

\* the lag scenario: one task publishes Bar values to one subscriber, with
\* more publish calls and larger capacities, so that the ring buffer wraps
InitSeq == InitWith(1..MaxCapSeq)

NextSeq ==
    \/ \E v \in 1..MaxPubSeq : CallPublish(1, "Bar", v)
    \/ CallSubscribe(1, "Bar", 1)
    \/ AcquireRead(1)
    \/ AcquireWrite(1)
    \/ PubSend(1)
    \/ SubMiss(1)
    \/ SubSlow(1)
    \/ SubReturn(1)
    \/ \E h \in 1..Len(rx) : Recv(h)
    \/ \E h \in 1..Len(rx) : DropHandle(h)
    \/ DropBus

SeqSpec == InitSeq /\ [][NextSeq]_vars

\* the capacity scenario with both types: one task makes the calls one
\* after another on a bus of capacity 1..MaxCapSeq
NextCap == NextOf({1}, Types, MaxPubCap, MaxSub)

CapSpec == InitSeq /\ [][NextCap]_vars

\* ------------------------------------------------------------ properties
Handles == 1..Len(rx)

\* the values receiver h has yielded so far
OkVals(h) == {got[h][i].val : i \in {j \in 1..Len(got[h]) : got[h][j].kind = "Ok"}}

\* how often receiver h has yielded value v
Yielded(h, v) ==
    Cardinality({i \in 1..Len(got[h]) :
                   got[h][i].kind = "Ok" /\ got[h][i].val = v})

\* the publish calls whose value has been handed to the registry
Sent == {v \in 1..Len(hist) : hist[v].sent}

\* the handles of type m whose Receiver has not been dropped
Undropped(m) == {h \in Handles : rx[h].ty = m /\ rx[h].st # "dropped"}

\* C1: however the lock acquisitions of concurrent first subscribe<M> calls
\* interleave, at most one channel is created and inserted for M, every
\* handle of M is a cursor on the channel registered for M, that channel
\* counts exactly the handles of M not yet dropped, and a publish<M> sent
\* when all subscribe calls have returned returns the number of live handles
C1_OneChannelPerType ==
    \A m \in Types :
        /\ inserts[m] <= 1
        /\ Cardinality({id \in 1..Len(chans) : chans[id].ty = m}) <= 1
        /\ clones > 0 =>
             /\ \A h \in Handles : rx[h].ty = m => rx[h].ch = registry[m]
             /\ registry[m] # 0 =>
                  chans[registry[m]].rx_cnt = Cardinality(Undropped(m))
        /\ \A v \in Sent :
             (hist[v].ty = m /\ hist[v].pendAt = {}) =>
                 hist[v].n = Cardinality(hist[v].liveAt)

\* two tasks raced on the slow path for one type (one created the channel,
\* the other found it on the second lookup) and a later publish reached both
C1_Witness ==
    \E h1, h2 \in Handles, v \in Sent :
        /\ rx[h1].ty = rx[h2].ty
        /\ rx[h1].path = "create" /\ rx[h2].path = "recheck"
        /\ hist[v].liveAt = {h1, h2}
        /\ hist[v].n = 2
        /\ v \in OkVals(h1) /\ v \in OkVals(h2)

C3_OneOrder ==
    /\ \A v, w \in Sent :
         (v # w /\ hist[v].ty = hist[w].ty /\ hist[v].n > 0 /\ hist[w].n > 0)
             => hist[v].pos # hist[w].pos
    /\ \A h \in Handles : \A i, j \in 1..Len(got[h]) :
         (i < j /\ got[h][i].kind = "Ok" /\ got[h][j].kind = "Ok") =>
             /\ hist[got[h][i].val].ty = rx[h].ty
             /\ hist[got[h][j].val].ty = rx[h].ty
             /\ hist[got[h][i].val].pos < hist[got[h][j].val].pos

\* two publish calls ran concurrently, the later call was stored first, and
\* two handles both yielded the two values in the stored order
C3_Witness ==
    \E h1, h2 \in Handles :
        /\ h1 # h2
        /\ Len(hist) = 2 /\ hist[2].sent /\ hist[1].sent
        /\ hist[2].pos < hist[1].pos
        /\ Len(got[h1]) = 2 /\ got[h1][1].val = 2 /\ got[h1][2].val = 1
        /\ Len(got[h2]) = 2 /\ got[h2][1].val = 2 /\ got[h2][2].val = 1

\* the number of slots tokio allocates for a channel of capacity cap: the
\* smallest power of two that is at least cap
EffCap == CHOOSE p \in 1..(2 * cap) :
              /\ p >= cap
              /\ \E k \in 0..cap : p = 2 ^ k
              /\ \A q \in 1..(2 * cap) :
                   (q >= cap /\ \E k \in 0..cap : q = 2 ^ k) => p <= q

\* the cursor after the receive recorded in entry e
After(e) == e.at + (IF e.kind = "Ok" THEN 1 ELSE e.n)

\* the original statement of C4: a receive by a handle that is more than C
\* values behind reports Lagged(n) with n the values beyond the C retained
C4_LagAtCapacity ==
    \A h \in Handles : \A i \in 1..Len(got[h]) :
        got[h][i].behind > cap =>
            /\ got[h][i].kind = "Lagged"
            /\ got[h][i].n = got[h][i].behind - cap

\* C4 (amended): with C' the smallest power of two >= C, a receive reports
\* Lagged exactly when the handle is more than C' values behind, with n the
\* number of values beyond the C' retained; every later receive continues at
\* the cursor the previous one left, and a value yielded is the one stored at
\* the cursor, so after Lagged(n) the retained values follow in publish
\* order without duplicate or gap
C4_LagAtEffectiveCapacity ==
    \A h \in Handles : \A i \in 1..Len(got[h]) :
        LET e == got[h][i]
        IN /\ (e.behind > EffCap) <=> (e.kind = "Lagged")
           /\ e.kind = "Lagged" => e.n = e.behind - EffCap
           /\ e.kind = "Ok" =>
                /\ hist[e.val].sent
                /\ hist[e.val].pos = e.at
                /\ hist[e.val].ch = rx[h].ch
           /\ i > 1 => e.at = After(got[h][i - 1])
           /\ (i = 1 /\ rx[h].path = "create") => e.at = 0

\* the scenario of the specification: capacity 4, values 1..6 published
\* before the subscriber receives, then Lagged(2), 3, 4, 5, 6
C4_Witness ==
    /\ cap = 4
    /\ Len(rx) = 1 /\ Len(got[1]) = 5
    /\ got[1][1].kind = "Lagged" /\ got[1][1].n = 2
    /\ \A i \in 2..5 : got[1][i].kind = "Ok" /\ got[1][i].val = i + 1
    /\ \A v \in 1..6 : hist[v].pos = v - 1

\* C5: a publish sent while its type has no handle (no channel in the
\* registry, or a channel all of whose handles were dropped) returns Ok(0),
\* and no publish at all returns an error
C5_NoSubscriberIsOk ==
    \A v \in Sent :
        /\ hist[v].ok
        /\ (hist[v].liveAt = {} /\ hist[v].pendAt = {}) => hist[v].n = 0

\* one publish found no channel and another found a channel whose handles
\* had all been dropped; both returned Ok(0)
C5_Witness ==
    \E v, w \in Sent :
        /\ hist[v].ch = 0 /\ hist[v].n = 0 /\ hist[v].ok
        /\ hist[w].ch # 0 /\ hist[w].liveAt = {} /\ hist[w].pendAt = {}
        /\ chans[hist[w].ch].rx_cnt = 0
        /\ hist[w].n = 0 /\ hist[w].ok

\* a task that holds the read guard inside publish is running: it reaches
\* its return without another await
LiveSpec == Spec /\ \A t \in Tasks : WF_vars(PubSend(t))

\* C6: a publish that has obtained the shared lock returns, whatever the
\* handles of its type do and however full the channel is
C6_PublishReturns ==
    \A t \in Tasks : (pc[t] = "pub_r") ~> (pc[t] = "idle")

\* a publish has returned after overwriting values that a live handle, which
\* never received, had not consumed
C6_Witness ==
    \E h \in Handles, v \in Sent :
        /\ rx[h].st = "live" /\ got[h] = << >>
        /\ hist[v].ch = rx[h].ch
        /\ hist[v].pos - rx[h].next >= BufLen(chans[rx[h].ch])
        /\ \A t \in Tasks : pc[t] = "idle"

\* the original statement of C7: after the bus is torn down the first
\* receive of every handle reports Closed, and none reports Lagged
C7_ClosedAtOnce ==
    clones = 0 =>
        \A h \in Handles : \A i \in 1..Len(got[h]) :
            i > rx[h].mark =>
                /\ got[h][i].kind # "Lagged"
                /\ i = rx[h].mark + 1 => got[h][i].kind = "Closed"

\* C7 (amended): after the bus is torn down a receive reports Closed exactly
\* when the handle has consumed everything published to its channel; what
\* was published and not consumed is still yielded first, and Lagged is
\* reported at most as the first result after the teardown
C7_ClosedAfterDrain ==
    clones = 0 =>
        \A h \in Handles : \A i \in 1..Len(got[h]) :
            i > rx[h].mark =>
                /\ (got[h][i].kind = "Closed") <=> (got[h][i].behind = 0)
                /\ got[h][i].kind = "Lagged" => i = rx[h].mark + 1

\* a handle that had consumed nothing of two published values when the bus
\* was torn down reported Lagged(1), then the retained value, then Closed
C7_Witness ==
    \E h \in Handles :
        /\ clones = 0 /\ rx[h].mark = 0
        /\ Len(got[h]) = 3
        /\ got[h][1].kind = "Lagged" /\ got[h][1].n = 1
        /\ got[h][2].kind = "Ok"
        /\ got[h][3].kind = "Closed"

\* C8: while the bus lives, a channel in the registry stays under its key,
\* neither removed nor replaced, and a type sees at most one insert
C8_ChannelStays ==
    [][\A m \in Types :
          /\ (registry[m] # 0 /\ clones' > 0) => registry'[m] = registry[m]
          /\ inserts'[m] <= 1]_vars

\* the channel a first subscriber created is still the registered one after
\* that subscriber dropped its handle, a publish found no receiver, and a
\* second subscriber took the fast path
C8_Witness ==
    \E h1, h2 \in Handles, v \in Sent :
        /\ rx[h1].ty = rx[h2].ty /\ hist[v].ty = rx[h1].ty
        /\ rx[h1].path = "create" /\ rx[h1].st = "dropped"
        /\ hist[v].ch = rx[h1].ch /\ hist[v].n = 0
        /\ rx[h2].path = "fast" /\ rx[h2].st = "live"
        /\ rx[h2].ch = rx[h1].ch /\ registry[rx[h1].ty] = rx[h1].ch

\* C9: the registry holds no entry for a type for which neither publish nor
\* subscribe was ever called; in particular it is empty before any call
C9_NoEagerEntry ==
    \A m \in Types : called[m] = {} => registry[m] = 0

\* one type has its channel and handles, the other was never used and has
\* no entry
C9_Witness ==
    \E m, o \in Types :
        /\ registry[m] # 0 /\ Undropped(m) # {}
        /\ called[o] = {} /\ registry[o] = 0

\* the original statement of C10: once a publish<M> has returned, the
\* registry of a live bus holds a channel for M even if nobody subscribed
C10_PublishCreates ==
    \A v \in Sent :
        (clones > 0 /\ "subscribe" \notin called[hist[v].ty]) =>
            registry[hist[v].ty] # 0

\* C10 (amended): only subscribe creates a channel. A type has an entry only
\* if subscribe was called for it, a publish for a type nobody subscribed to
\* finds no channel and returns 0, and every handle a live bus has handed
\* out has its channel registered
C10_OnlySubscribeCreates ==
    /\ \A m \in Types : registry[m] # 0 => "subscribe" \in called[m]
    /\ \A v \in Sent :
         "subscribe" \notin called[hist[v].ty] =>
             (hist[v].ch = 0 /\ hist[v].n = 0 /\ hist[v].ok)
    /\ \A h \in Handles : clones > 0 => registry[rx[h].ty] = rx[h].ch

\* a publish for a type nobody subscribed to has returned and the registry
\* of the live bus still has no entry for the type
C10_Witness ==
    \E v \in Sent :
        /\ clones > 0
        /\ "subscribe" \notin called[hist[v].ty]
        /\ registry[hist[v].ty] = 0
        /\ \A t \in Tasks : pc[t] = "idle"

\* C11: only a subscribe whose read-only lookup missed asks for the
\* exclusive lock. A task starts waiting for the write lock only from under
\* its read guard with no channel registered for its type; a subscribe
\* whose lookup finds the channel goes straight to its return, neither
\* queued nor holding the write guard; the write guard is granted only to a
\* task that asked for it; and a publishing task never waits for and never
\* holds the write guard
C11_WriteOnlyOnMiss ==
    [][\A t \in Tasks :
        /\ (pc'[t] = "sub_acq_w" /\ pc[t] # "sub_acq_w") =>
               (pc[t] = "sub_r" /\ registry[arg[t]] = 0)
        /\ (pc[t] = "sub_r" /\ registry[arg[t]] # 0 /\ pc'[t] # pc[t]) =>
               /\ pc'[t] = "sub_ret"
               /\ rx'[cur'[t]].path = "fast"
               /\ writer' # t
               /\ \A i \in 1..Len(queue') : queue'[i] # t
        /\ (pc[t] = "sub_ret" /\ rx[cur[t]].path = "fast") =>
               (writer # t /\ pc'[t] \in {"sub_ret", "idle"})
        /\ (writer' = t /\ writer # t) => pc[t] = "sub_acq_w"
        /\ pc[t] \in {"pub_acq", "pub_r"} =>
               (writer # t /\ pc'[t] \in {"pub_acq", "pub_r", "idle"})
      ]_vars

\* the slow path created the channel once, a later subscribe found it by
\* its read-only lookup and its handle was returned, and a publish has
\* reached both handles
C11_Witness ==
    \E h0, h \in Handles, v \in Sent :
        /\ rx[h0].path = "create" /\ rx[h].path = "fast"
        /\ rx[h].ch = rx[h0].ch /\ inserts[rx[h].ty] = 1
        /\ rx[h].st = "live" /\ rx[h0].st = "live"
        /\ hist[v].liveAt = {h0, h} /\ hist[v].n = 2
        /\ writer = 0 /\ \A t \in Tasks : pc[t] = "idle"

\* C12: the channel stored under the key of type M carries M. Every
\* registered channel has the type of its key, no publish has returned the
\* type-mismatch error, no subscribe has hit the expect() of bus.rs:103 or
\* bus.rs:117, every handle is on a channel of its own type, and every value
\* a handle yields was published as the handle's type
C12_TypeSafe ==
    /\ \A m \in Types : registry[m] # 0 => chans[registry[m]].ty = m
    /\ \A v \in 1..Len(hist) : hist[v].ok
    /\ \A t \in Tasks : pc[t] # "panic"
    /\ \A h \in Handles :
         /\ chans[rx[h].ch].ty = rx[h].ty
         /\ \A v \in OkVals(h) : hist[v].ty = rx[h].ty

\* both types have a channel and a handle, one value of each type was
\* published, and each handle yielded the value of its own type only
C12_Witness ==
    \E h1, h2 \in Handles, v1, v2 \in Sent :
        /\ rx[h1].ty = "Bar" /\ rx[h2].ty = "FillEvent"
        /\ hist[v1].ty = "Bar" /\ hist[v2].ty = "FillEvent"
        /\ registry["Bar"] = rx[h1].ch /\ registry["FillEvent"] = rx[h2].ch
        /\ hist[v1].n = 1 /\ hist[v2].n = 1
        /\ OkVals(h1) = {v1} /\ OkVals(h2) = {v2}

\* the handles whose receiver existed when the publish of v was delivered
ReceiversAt(v) == hist[v].liveAt \cup hist[v].pendAt

\* the original statement of C13: a handle whose subscribe call had returned
\* when v was delivered to the channel receives v, and a handle whose
\* subscribe call had not returned by then never yields v
C13_NotReturnedNeverYields ==
    \A v \in Sent, h \in Handles :
        /\ (h \in hist[v].liveAt /\ rx[h].next > hist[v].pos) =>
               \/ Yielded(h, v) = 1
               \/ \E i \in 1..Len(got[h]) : got[h][i].kind = "Lagged"
        /\ h \notin hist[v].liveAt => Yielded(h, v) = 0

\* C13 (amended): what decides is whether the receiver exists, not whether
\* subscribe has returned. A handle whose receiver was created before v was
\* delivered receives v, also when its subscribe call, on the read-only
\* path, had not returned yet; publish counts it; and a handle whose
\* receiver was created after the delivery never yields v. A call on the
\* slow path excludes publish until it returns
C13_ReceiverDecides ==
    \A v \in Sent :
        /\ hist[v].n = Cardinality(ReceiversAt(v))
        /\ \A h \in hist[v].pendAt : rx[h].path = "fast"
        /\ \A h \in Handles :
             /\ (h \in ReceiversAt(v) /\ rx[h].next > hist[v].pos) =>
                    \/ Yielded(h, v) = 1
                    \/ \E i \in 1..Len(got[h]) : got[h][i].kind = "Lagged"
             /\ h \notin ReceiversAt(v) => Yielded(h, v) = 0

\* a value was delivered between the creation of a receiver and the return
\* of its subscribe call: publish counted the handle and the handle, once
\* returned, yielded the value
C13_Witness ==
    \E v \in Sent, h \in Handles :
        /\ h \in hist[v].pendAt
        /\ hist[v].n = Cardinality(hist[v].liveAt) + 1
        /\ rx[h].st = "live"
        /\ Yielded(h, v) = 1

\* C14: a channel outlives its handles. While the bus is alive the channel
\* of every handle, dropped or not, is the one registered for its type; a
\* publish that finds the channel with no receiver returns Ok(0); a
\* subscribe that starts when the channel is registered takes the read-only
\* path onto that same channel; and a publish delivered while that handle is
\* the only one returns 1 and is yielded by it once its cursor has passed
C14_ChannelOutlivesHandles ==
    /\ \A h \in Handles : clones > 0 => registry[rx[h].ty] = rx[h].ch
    /\ \A v \in Sent :
         (hist[v].ch # 0 /\ ReceiversAt(v) = {}) =>
             (hist[v].ok /\ hist[v].n = 0)
    /\ \A h \in Handles :
         rx[h].hit =>
             /\ rx[h].path = "fast"
             /\ \E h0 \in Handles :
                  /\ rx[h0].path = "create" /\ rx[h0].ch = rx[h].ch
                  /\ rx[h0].ty = rx[h].ty
             /\ \A v \in Sent :
                  (hist[v].liveAt = {h} /\ hist[v].pendAt = {}) =>
                      /\ hist[v].n = 1
                      /\ rx[h].next > hist[v].pos =>
                             \/ Yielded(h, v) = 1
                             \/ \E i \in 1..Len(got[h]) :
                                  got[h][i].kind = "Lagged"

\* the only handle of a type was dropped, a publish then returned 0, a
\* subscribe called after that took the read-only path onto the same
\* channel, and a second publish returned 1 and was yielded by the new
\* handle, which never yielded the first value
C14_Witness ==
    \E h1, h2 \in Handles, v1, v2 \in Sent :
        /\ rx[h1].path = "create" /\ rx[h1].st = "dropped"
        /\ hist[v1].ch = rx[h1].ch /\ ReceiversAt(v1) = {}
        /\ hist[v1].n = 0 /\ hist[v1].ok
        /\ rx[h2].hit /\ v1 \in rx[h2].before /\ rx[h2].st = "live"
        /\ rx[h2].path = "fast" /\ rx[h2].ch = rx[h1].ch
        /\ hist[v2].liveAt = {h2} /\ hist[v2].n = 1
        /\ Yielded(h2, v2) = 1 /\ Yielded(h2, v1) = 0
        /\ clones > 0

\* C15: every channel of a bus is allocated from the capacity C given to
\* new and retains at least C values. A receive reports Lagged only when
\* its handle is more than C values behind; a handle that was never more
\* than C values behind at a receive has reported no Lagged and has yielded
\* every value delivered since its receiver was created that its cursor has
\* passed; and a value a handle has passed without yielding it is covered by
\* a Lagged the handle reported when it was more than C behind
C15_CapacityShared ==
    /\ EffCap >= cap
    /\ \A id \in 1..Len(chans) : BufLen(chans[id]) = EffCap
    /\ \A h \in Handles :
         LET Missed == {v \in Sent : /\ h \in ReceiversAt(v)
                                     /\ rx[h].next > hist[v].pos
                                     /\ Yielded(h, v) = 0}
             Lags   == {i \in 1..Len(got[h]) : got[h][i].kind = "Lagged"}
         IN /\ \A i \in Lags : got[h][i].behind > cap
            /\ (\A i \in 1..Len(got[h]) : got[h][i].behind <= cap) =>
                   (Lags = {} /\ Missed = {})
            /\ Missed # {} => Lags # {}

\* a bus of capacity 3 has a channel for each type, both with the same
\* number of slots; three values were published before the handle of their
\* type received, and it then yielded all three without a Lagged
C15_Witness ==
    \E h \in Handles :
        /\ cap = 3
        /\ registry["Bar"] # 0 /\ registry["FillEvent"] # 0
        /\ registry["Bar"] # registry["FillEvent"]
        /\ Len(got[h]) = 3
        /\ got[h][1].behind = 3
        /\ \A i \in 1..3 : got[h][i].kind = "Ok"

\* what the results handle h will yield depend on: the stored values of its
\* channel and its own cursor
View(h) ==
    [buffer |-> chans[rx[h].ch].buffer,
     tail   |-> chans[rx[h].ch].tail,
     closed |-> chans[rx[h].ch].closed,
     next   |-> rx[h].next]

\* C16: handles are independent cursors. In every step, what a handle will
\* yield changes only by its own receive, by a publish of its own type
\* being delivered, or by the last bus clone going away: never by the
\* subscribe, receive or drop of another handle, or by anything done for
\* another type; the receive of one handle changes no other handle and no
\* channel; a channel's stored values change only by a publish of its type;
\* and a handle reports Lagged only for its own distance from the tail
C16_IndependentCursors ==
    [][LET Delivered(m) == \E v \in 1..Len(hist) :
                              /\ hist'[v].sent /\ ~hist[v].sent
                              /\ hist'[v].ty = m
           Down == clones = 1 /\ clones' = 0
       IN /\ \A h \in Handles :
               /\ (got'[h] = got[h] /\ ~Delivered(rx[h].ty) /\ ~Down) =>
                      View(h)' = View(h)
               /\ got'[h] # got[h] =>
                      /\ chans' = chans
                      /\ \A g \in Handles \ {h} : rx'[g] = rx[g]
                      /\ Len(rx') = Len(rx)
               /\ \A i \in 1..Len(got[h]) :
                      got[h][i].kind = "Lagged" => got[h][i].behind > EffCap
          /\ \A id \in 1..Len(chans) :
               (~Delivered(chans[id].ty) /\ ~Down) =>
                   /\ chans'[id].buffer = chans[id].buffer
                   /\ chans'[id].tail = chans[id].tail
                   /\ chans'[id].closed = chans[id].closed
      ]_vars

\* on a bus of capacity 1 two handles were live for two publishes: one
\* received after each and yielded both values, the other received only
\* after the second and reported Lagged
C16_Witness ==
    \E h1, h2 \in Handles :
        /\ cap = 1 /\ h1 # h2
        /\ Len(hist) = 2
        /\ \A v \in 1..2 : hist[v].sent /\ hist[v].liveAt = {h1, h2}
        /\ Len(got[h1]) = 2
        /\ got[h1][1].kind = "Lagged" /\ got[h1][2].kind = "Ok"
        /\ Len(got[h2]) = 2
        /\ got[h2][1].kind = "Ok" /\ got[h2][2].kind = "Ok"

\* C17: the clones of a bus are holders of one registry. Making a clone, or
\* dropping one while another remains, changes no registry entry, channel,
\* handle or result; while a clone is alive no registered channel is closed
\* and no handle has reported Closed; and whatever the number of clones at
\* the time, a subscribe that starts with the channel registered finds it
\* on its read-only lookup and a publish reaches every receiver of its type
C17_ClonesShareRegistry ==
    [][/\ (clones' # clones /\ clones' > 0) =>
             /\ registry' = registry /\ chans' = chans
             /\ rx' = rx /\ got' = got
       /\ clones > 0 =>
             /\ \A m \in Types :
                  registry[m] # 0 => ~chans[registry[m]].closed
             /\ \A h \in Handles : ClosedSeen(h) = 0
             /\ \A h \in Handles :
                  /\ registry[rx[h].ty] = rx[h].ch
                  /\ rx[h].hit => rx[h].path = "fast"
       /\ \A v \in Sent :
             /\ hist[v].n = Cardinality(ReceiversAt(v))
             /\ clones > 0 =>
                  \A h \in ReceiversAt(v) :
                      rx[h].next > hist[v].pos =>
                          \/ Yielded(h, v) = 1
                          \/ \E i \in 1..Len(got[h]) :
                               got[h][i].kind = "Lagged"
      ]_vars

\* two clones of the bus are alive; the channel one subscribe created was
\* found by the read-only lookup of a later subscribe, a publish returned 2
\* and both handles yielded its value, and no channel is closed
C17_Witness ==
    \E h0, h \in Handles, v \in Sent :
        /\ clones = MaxClones /\ clones > 1
        /\ rx[h0].path = "create" /\ rx[h].path = "fast" /\ rx[h].hit
        /\ rx[h].ch = rx[h0].ch
        /\ hist[v].n = 2
        /\ Yielded(h0, v) = 1 /\ Yielded(h, v) = 1
        /\ \A id \in 1..Len(chans) : ~chans[id].closed

\* C18: Closed is terminal. In the results of every handle nothing but
\* Closed follows a Closed, and a handle that has reported Closed has its
\* cursor at the tail of a closed channel, with nothing left to yield
C18_ClosedIsTerminal ==
    \A h \in Handles :
        /\ \A i, j \in 1..Len(got[h]) :
             (i < j /\ got[h][i].kind = "Closed") => got[h][j].kind = "Closed"
        /\ ClosedSeen(h) > 0 =>
             /\ chans[rx[h].ch].closed
             /\ rx[h].next = chans[rx[h].ch].tail
             /\ recv(chans[rx[h].ch], rx[h].next).kind = "Closed"

\* after the bus went away a handle yielded a value still buffered, then
\* reported Closed, and on another receive reported Closed again
C18_Witness ==
    \E h \in Handles :
        /\ clones = 0
        /\ Len(got[h]) = 3
        /\ got[h][1].kind = "Ok"
        /\ got[h][2].kind = "Closed" /\ got[h][3].kind = "Closed"
        /\ rx[h].mark = 0

\* a step of task t inside a publish or subscribe call: a lock grant or the
\* code that runs under a guard
TaskStep(t) ==
    \/ AcquireRead(t)
    \/ AcquireWrite(t)
    \/ PubSend(t)
    \/ SubFast(t)
    \/ SubMiss(t)
    \/ SubSlow(t)
    \/ SubReturn(t)

\* the runtime keeps polling every task that can proceed and the lock hands
\* itself to the waiter at the head of its queue: a task whose next step
\* stays possible eventually takes it
FairSpec == Spec /\ \A t \in Tasks : WF_vars(TaskStep(t))

\* the registry lock is held either by one writer or by readers, a task
\* waiting for the lock holds no guard, and a task holds a guard only
\* inside a call
LockExclusive ==
    /\ writer # 0 => readers = {}
    /\ \A t \in Tasks :
         /\ pc[t] \in {"pub_acq", "sub_acq_r", "sub_acq_w"} =>
                (t \notin readers /\ writer # t)
         /\ pc[t] \in {"idle", "panic"} => (t \notin readers /\ writer # t)
         /\ pc[t] \in {"pub_r", "sub_r"} => t \in readers
         /\ pc[t] = "sub_w" => writer = t

\* C19: under fair scheduling no call waits forever. The lock is never held
\* exclusively together with another hold, a subscriber has released its
\* read guard when it waits for the write lock, and every task inside a
\* publish or subscribe call eventually returns from it
C19_EveryCallReturns ==
    /\ []LockExclusive
    /\ \A t \in Tasks : (pc[t] # "idle") ~> (pc[t] = "idle")

\* two subscribers raced on the slow path: one holds the write guard, the
\* other waits for it at the head of the queue, and a publisher waits
\* behind it
C19_Witness ==
    \E t1, t2, t3 \in Tasks :
        /\ pc[t1] = "sub_w" /\ writer = t1
        /\ pc[t2] = "sub_acq_w" /\ pc[t3] = "pub_acq"
        /\ queue = <<t2, t3>>

\* C20: no replay. A handle never yields a value whose publish had returned
\* when the subscribe call that made the handle started, and its first
\* receive starts beyond every such value stored in its channel, so that no
\* Lagged count covers one either
C20_NoReplay ==
    \A h \in Handles : \A v \in rx[h].before :
        /\ hist[v].sent
        /\ Yielded(h, v) = 0
        /\ h \notin ReceiversAt(v)
        /\ (hist[v].ch = rx[h].ch /\ hist[v].n > 0) =>
               /\ rx[h].next > hist[v].pos
               /\ Len(got[h]) > 0 => got[h][1].at > hist[v].pos

\* a value was published to a live handle and is still in the channel's
\* buffer; a subscribe called after that publish returned a handle on the
\* same channel, which yielded the next value published and nothing else
C20_Witness ==
    \E h1, h2 \in Handles, v1, v2 \in Sent :
        /\ hist[v1].liveAt = {h1} /\ hist[v1].n = 1
        /\ v1 \in rx[h2].before /\ rx[h2].ch = rx[h1].ch
        /\ \E i \in DOMAIN chans[rx[h2].ch].buffer :
             /\ chans[rx[h2].ch].buffer[i].val = v1
             /\ chans[rx[h2].ch].buffer[i].pos = hist[v1].pos
        /\ h2 \in hist[v2].liveAt
        /\ Len(got[h2]) = 1 /\ got[h2][1].kind = "Ok" /\ got[h2][1].val = v2
        /\ rx[h2].next = chans[rx[h2].ch].tail

====
